---- MODULE Spec2Model ----
(***************************************************************************)
(* Band-decode / PTT-interlock state machine of the R140 amplifier         *)
(* controller (src/sergej-arduino/R140_control.ino).                       *)
(*                                                                         *)
(* Time: millis() is an unsigned counter that wraps at 2^32.  The model    *)
(* keeps the wrap-around and counts time in coarser units: the counter     *)
(* wraps at ClockModulus and the configured block duration is BlockMs.     *)
(* As on the device, the block duration plus the longest loop iteration    *)
(* (MaxDelay + MaxGap) is shorter than the rest of the counter period.     *)
(* All unsigned subtractions of the source are taken modulo ClockModulus.  *)
(*                                                                         *)
(* One loop() iteration is handleAmplifierLogic (the interlock tick), an   *)
(* optional reconnectMQTT, and loopService (the rest of loop(): debug      *)
(* timeout, delay).  An iteration may take longer than the block duration  *)
(* (a blocking network call).  statusLog / debugLog hold what the last     *)
(* step handed to publishAmpStatus / publishDebugMessage, with the outcome *)
(* of the sink's own gate (client connected / debugEnabled).               *)
(***************************************************************************)
EXTENDS Integers, Sequences, FiniteSets, TLC

\* ------------------------------------------------------------------ bounds
ClockModulus == 9
BlockMs == 2
MaxGap == 1
MaxDelay == 3
MaxSetupMs == 1
DebugMs == 4
SecondsSpan == 3

\* ------------------------------------------------------- program constants
LOW == "LOW"
HIGH == "HIGH"
Mask == 15
UnsetBand == 255
DefaultBlockSeconds == 15
MaxBlockSeconds == 600
MsPerSecond == 1000
ClearMask == 195
SetMask == 60

Levels == {LOW, HIGH}
Pins == 0 .. 3
PinReadings == [Pins -> Levels]
Gaps == 0 .. MaxGap
ElapsedCap == ClockModulus + BlockMs + 2

VARIABLES
  pc,                 \* "setup" | "logic" | "service" | "reconnected";
                      \* "map" | "mapped"; "decode" | "decoded" | "compared";
                      \* "boot" | "configured" | "saved"
  clock,              \* millis()
  band, bandOld,
  lastBandChangeTime, bandBlockTimeMs,
  pttState, pttBlockReported,
  debugEnabled, debugDeadline,
  pttOutPin, bandOutPins,
  bandInPins,         \* levels on the four band input pins at the last sampling
  block_ptt_seconds,  \* the configured "Block PTT for" value
  eepromSeconds,      \* the int stored at EEPROM address 140
  sketch,             \* the earlier sketch: its band, bandOld and PORTD
  \* what the tick just taken saw (reset by the next step)
  in_ptt, in_ugl,     \* levels sampled by the tick
  blockActive,        \* blockActive computed by the tick
  prevPtt,            \* pttState at the start of the tick
  prevBlockReported,  \* pttBlockReported at the start of the tick
  bandChanged,        \* the tick's bandControl detected a change
  statusLog,          \* calls of publishAmpStatus made by the last step
  debugLog,           \* calls of publishDebugMessage made by the last step
  elapsed,            \* true time since the last band change (since boot if
                      \* none); from ElapsedCap on, less whole counter periods
  changedSinceBoot    \* a band change has been detected since boot

vars == << pc, clock, band, bandOld, lastBandChangeTime, bandBlockTimeMs,
           pttState, pttBlockReported, debugEnabled, debugDeadline,
           pttOutPin, bandOutPins, bandInPins, block_ptt_seconds, eepromSeconds,
           sketch, in_ptt, in_ugl, blockActive, prevPtt, prevBlockReported,
           bandChanged, statusLog, debugLog, elapsed, changedSinceBoot >>

\* what the interlock never writes: the stored configuration and the state of
\* the earlier sketch
configVars == << block_ptt_seconds, eepromSeconds >>

\* --------------------------------------------------------------- helpers
\* unsigned addition / subtraction of the millisecond counter
AddMs(a, b) == (a + b) % ClockModulus
SubMs(a, b) == (a - b + ClockModulus) % ClockModulus

\* the true elapsed time g later: exact below ElapsedCap, beyond it folded
\* back by one whole counter period
Later(e, g) == IF e + g < ElapsedCap THEN e + g ELSE e + g - ClockModulus

Bit(p, i) == (p \div (2 ^ i)) % 2

\* variant: the window excludes its last millisecond
BlockActiveExclusive(nowv, last, dur) == SubMs(nowv, last) < dur

\* now - lastBandChangeTime <= bandBlockTimeMs
BlockActive(nowv, last, dur) == SubMs(nowv, last) <= dur

\* uint8_t readBandCode(): bit i set iff pin i reads HIGH, masked to 4 bits
RECURSIVE readBandBits(_, _)
readBandBits(r, i) ==
  IF i = 4 THEN 0
  ELSE (IF r[i] = HIGH THEN 2 ^ i ELSE 0) + readBandBits(r, i + 1)

\* variant: a LOW pin read as 1
readBandCodeActiveLow(r) == (Mask - readBandBits(r, 0)) % (Mask + 1)

readBandCode(r) == readBandBits(r, 0) % (Mask + 1)

\* the pin readings the interlock samples in this model: those of the band
\* codes of the specification's scenarios (7, 10, the unmapped 0) and 14
SampledCodes == {0, 7, 10, 14}
SampledReadings == {r \in PinReadings : readBandCode(r) \in SampledCodes}

\* the switch of applyBandOutputs
Pattern(b) ==
  CASE b = 15 -> 15
    [] b = 14 -> 0
    [] b = 13 -> 1
    [] b = 12 -> 2
    [] b = 11 -> 3
    [] b = 10 -> 4
    [] b = 9  -> 5
    [] b = 8  -> 6
    [] b = 7  -> 7
    [] b = 6  -> 8
    [] b = 5  -> 9
    [] OTHER  -> 15

\* variant: the pattern written in reverse pin order
applyBandOutputsReversed(b) ==
  [i \in Pins |-> IF Bit(Pattern(b), 3 - i) = 1 THEN HIGH ELSE LOW]

\* the digitalWrite loop of applyBandOutputs: the levels left on OUT0..OUT3
applyBandOutputs(b) ==
  [i \in Pins |-> IF Bit(Pattern(b), i) = 1 THEN HIGH ELSE LOW]

\* one call of publishDebugMessage
publishDebugMessage(msg, enabled) == [msg |-> msg, printed |-> enabled]

\* one call of publishAmpStatus; m1, m2 are the two millis() readings.
\* When the client is not connected nothing is built (block fields unset).
publishAmpStatus(conn, ptt, bnd, last, dur, m1, m2) ==
  IF ~conn
  THEN [sent |-> FALSE, ptt |-> ptt, band |-> bnd, block |-> FALSE, block_ms_left |-> 0]
  ELSE [sent |-> TRUE, ptt |-> ptt, band |-> bnd,
        block |-> BlockActive(m1, last, dur),
        block_ms_left |-> IF BlockActive(m1, last, dur)
                          THEN SubMs(dur, SubMs(m2, last))
                          ELSE 0]

\* ------------------------------------------- the earlier sketch (AVR ports)
\* the values of an 8-bit port register
PortValues == 0 .. 255

\* a & b and a | b on 8-bit registers
RECURSIVE BitAnd(_, _, _)
BitAnd(a, b, i) ==
  IF i = 8 THEN 0 ELSE (2 ^ i) * Bit(a, i) * Bit(b, i) + BitAnd(a, b, i + 1)

RECURSIVE BitOr(_, _, _)
BitOr(a, b, i) ==
  IF i = 8 THEN 0
  ELSE (2 ^ i) * (IF Bit(a, i) = 1 \/ Bit(b, i) = 1 THEN 1 ELSE 0) + BitOr(a, b, i + 1)

\* PINC: bits 0..3 are the band input pins, bit 5 (A5) the tuning input
PINC(r, lvl_ugl) == readBandBits(r, 0) + (IF lvl_ugl = HIGH THEN 32 ELSE 0)

\* variant: the relay bits are not cleared before the new ones are set
clearRelayBitsSkipped(p) == p

\* PORTD &= B11000011
clearRelayBits(p) == BitAnd(p, ClearMask, 0)

\* the switch of the sketch's bandControl(): the value left in PORTD
sketchSwitch(b, p) ==
  CASE b = 15 -> BitOr(p, SetMask, 0)
    [] b = 14 -> clearRelayBits(p)
    [] b = 13 -> BitOr(clearRelayBits(p), 4, 0)
    [] b = 12 -> BitOr(clearRelayBits(p), 8, 0)
    [] b = 11 -> BitOr(clearRelayBits(p), 12, 0)
    [] b = 10 -> BitOr(clearRelayBits(p), 16, 0)
    [] b = 9  -> BitOr(clearRelayBits(p), 20, 0)
    [] b = 8  -> BitOr(clearRelayBits(p), 24, 0)
    [] b = 7  -> BitOr(clearRelayBits(p), 28, 0)
    [] b = 6  -> BitOr(clearRelayBits(p), 32, 0)
    [] b = 5  -> BitOr(clearRelayBits(p), 36, 0)
    [] OTHER  -> BitOr(p, SetMask, 0)

\* the earlier sketch after reset: its globals are zero, PORTD is zero
sketchReset == [band |-> 0, bandOld |-> 0, PORTD |-> 0]

\* ------------------------------------------------------------------ Init
\* In Spec the configuration is not reloaded: the block duration stays BlockMs,
\* in the coarse clock unit.
Init ==
  /\ pc = "setup"
  /\ clock = 0
  /\ band = UnsetBand
  /\ bandOld = UnsetBand
  /\ lastBandChangeTime = 0
  /\ bandBlockTimeMs = BlockMs
  /\ pttState = FALSE
  /\ pttBlockReported = FALSE
  /\ debugEnabled = TRUE
  /\ debugDeadline = DebugMs
  /\ pttOutPin = LOW
  /\ bandOutPins = [i \in Pins |-> LOW]
  /\ bandInPins = [i \in Pins |-> HIGH]
  /\ block_ptt_seconds = DefaultBlockSeconds
  /\ eepromSeconds = DefaultBlockSeconds
  /\ sketch = sketchReset
  /\ in_ptt = HIGH
  /\ in_ugl = HIGH
  /\ blockActive = FALSE
  /\ prevPtt = FALSE
  /\ prevBlockReported = FALSE
  /\ bandChanged = FALSE
  /\ statusLog = << >>
  /\ debugLog = << >>
  /\ elapsed = 0
  /\ changedSinceBoot = FALSE

\* ----------------------------------------------------------------- setup
\* setup(): debugDeadline += millis(); pins; initial band read (no
\* lastBandChangeTime update); applyBandOutputs.  t is the time setup takes.
setup ==
  /\ pc = "setup"
  /\ \E r \in SampledReadings, t \in 0 .. MaxSetupMs :
       /\ debugDeadline' = debugDeadline + clock
       /\ bandInPins' = r
       /\ bandOld' = readBandCode(r)
       /\ band' = readBandCode(r)
       /\ bandOutPins' = applyBandOutputs(readBandCode(r))
       /\ pttOutPin' = LOW
       /\ debugLog' = << publishDebugMessage("band_code", debugEnabled) >>
       /\ clock' = AddMs(clock, t)
       /\ elapsed' = Later(elapsed, t)
  /\ pc' = "logic"
  /\ statusLog' = << >>
  /\ UNCHANGED << lastBandChangeTime, bandBlockTimeMs, pttState, pttBlockReported,
                  debugEnabled, in_ptt, in_ugl, blockActive, prevPtt,
                  prevBlockReported, bandChanged, changedSinceBoot,
                  configVars, sketch >>

\* ------------------------------------------------------------ bandControl
\* variant: status published on every tick in TX (level instead of edge)
pttStatusDueLevel(prev, new) == new

\* if (pttState != prevPtt) publishAmpStatus();
pttStatusDue(prev, new) == new # prev

\* The tick's band part when no band change is detected: bandControl() is
\* not called (PTT pressed, bnd = band) or it reads the stored code
\* (band = newBand).  Then the "PTT state changed" publish; g is the time
\* between the two millis() readings of that snapshot, conn whether the MQTT
\* client is connected.
noBandChange(bnd, dbg, newPtt) ==
  /\ band' = bnd
  /\ bandChanged' = FALSE
  /\ debugLog' = dbg
  /\ \E g \in (IF pttStatusDue(pttState, newPtt) THEN Gaps ELSE {0}),
        conn \in (IF pttStatusDue(pttState, newPtt) THEN BOOLEAN ELSE {FALSE}) :
       /\ statusLog' = IF pttStatusDue(pttState, newPtt)
                       THEN << publishAmpStatus(conn, newPtt, bnd, lastBandChangeTime,
                                                bandBlockTimeMs, clock, AddMs(clock, g)) >>
                       ELSE << >>
       /\ clock' = AddMs(clock, g)
       /\ elapsed' = Later(elapsed, g)
  /\ UNCHANGED << bandOld, lastBandChangeTime, bandOutPins, changedSinceBoot >>

\* bandControl() on a changed code, then the "PTT state changed" publish.
\* g1: time from the tick's `now` to lastBandChangeTime = millis(); g3, g4:
\* time between the two millis() readings of the band snapshot and of the
\* PTT snapshot.
bandChange(newBand, dbg0, dbgTail, newPtt) ==
  \E g1 \in Gaps, g3 \in Gaps,
     g4 \in (IF pttStatusDue(pttState, newPtt) THEN Gaps ELSE {0}),
     conn \in BOOLEAN :
    LET t1 == AddMs(clock, g1)
        m1 == t1
        m2 == AddMs(m1, g3)
        m3 == AddMs(m2, g4)
        bandSnap == publishAmpStatus(conn, newPtt, newBand, t1, bandBlockTimeMs, m1, m2)
        pttSnap == publishAmpStatus(conn, newPtt, newBand, t1, bandBlockTimeMs, m2, m3)
    IN /\ band' = newBand
       /\ bandOld' = newBand
       /\ lastBandChangeTime' = t1
       /\ bandOutPins' = applyBandOutputs(newBand)
       /\ bandChanged' = TRUE
       /\ changedSinceBoot' = TRUE
       /\ debugLog' = dbg0 \o << publishDebugMessage("band_change", debugEnabled),
                                 publishDebugMessage("band_block", debugEnabled),
                                 publishDebugMessage("band_code", debugEnabled) >>
                           \o dbgTail
       /\ statusLog' = IF pttStatusDue(pttState, newPtt)
                       THEN << bandSnap, pttSnap >> ELSE << bandSnap >>
       /\ clock' = m3
       /\ elapsed' = Later(0, g3 + g4)

\* variants: a change ignored while a block is active; every call treated as
\* a change; the new code reported but never latched
bandControlDebounced(newBand, dbg0, dbgTail, newPtt) ==
  IF newBand = bandOld \/ BlockActive(clock, lastBandChangeTime, bandBlockTimeMs)
  THEN noBandChange(newBand, dbg0 \o dbgTail, newPtt)
  ELSE bandChange(newBand, dbg0, dbgTail, newPtt)

bandControlRestarts(newBand, dbg0, dbgTail, newPtt) ==
  bandChange(newBand, dbg0, dbgTail, newPtt)

bandControlUnlatched(newBand, dbg0, dbgTail, newPtt) ==
  noBandChange(newBand, dbg0 \o dbgTail, newPtt)

\* void bandControl(), called with the code readBandCode() returned
bandControl(newBand, dbg0, dbgTail, newPtt) ==
  IF newBand = bandOld
  THEN noBandChange(newBand, dbg0 \o dbgTail, newPtt)
  ELSE bandChange(newBand, dbg0, dbgTail, newPtt)

\* --------------------------------------------------- handleAmplifierLogic
\* variants: the block ignored; TX kept once granted; a grant only on a
\* fresh press
pttAllowedAlways(blk) == TRUE
pttAllowedSticky(blk) == ~blk \/ pttState
pttAllowedFresh(blk) == ~blk /\ ~pttBlockReported

\* bool pttAllowed = !blockActive;
pttAllowed(blk) == ~blk

\* variants: bandControl() called on every tick; called before the PTT
\* branch has run, on pressed ticks too
callsBandControlAlways(lvl_ptt) == TRUE
callsBandControlFirst(lvl_ptt) == lvl_ptt \in Levels

\* bandControl() is called in the released branch only
callsBandControl(lvl_ptt) == lvl_ptt # LOW

\* variant: the tuning line logged with the polarity inverted
uglDebugInverted(lvl_ugl) ==
  IF lvl_ugl = HIGH THEN << publishDebugMessage("ugl_low", debugEnabled) >> ELSE << >>

\* "[INFO] Uglasevanje input LOW (active)" at the end of the tick
uglDebug(lvl_ugl) ==
  IF lvl_ugl = LOW THEN << publishDebugMessage("ugl_low", debugEnabled) >> ELSE << >>

\* variant: the denial logged on every denied tick
pttDebugEveryDenial(pressed, allowed) ==
  IF pressed
  THEN IF allowed
       THEN (IF ~pttState
             THEN << publishDebugMessage("ptt_tx_on", debugEnabled) >> ELSE << >>)
       ELSE << publishDebugMessage("ptt_blocked", debugEnabled) >>
  ELSE IF pttState
       THEN << publishDebugMessage("ptt_tx_off", debugEnabled) >> ELSE << >>

\* the debug lines of the PTT part of the tick
pttDebug(pressed, allowed) ==
  IF pressed
  THEN IF allowed
       THEN (IF ~pttState
             THEN << publishDebugMessage("ptt_tx_on", debugEnabled) >> ELSE << >>)
       ELSE (IF ~pttBlockReported
             THEN << publishDebugMessage("ptt_blocked", debugEnabled) >> ELSE << >>)
  ELSE IF pttState
       THEN << publishDebugMessage("ptt_tx_off", debugEnabled) >> ELSE << >>

handleAmplifierLogic ==
  /\ pc = "logic"
  /\ \E lvl_ptt \in Levels, lvl_ugl \in Levels :
       LET blk == BlockActive(clock, lastBandChangeTime, bandBlockTimeMs)
           pressed == lvl_ptt = LOW
           allowed == pttAllowed(blk)
           newPtt == pressed /\ allowed
       IN /\ in_ptt' = lvl_ptt
          /\ in_ugl' = lvl_ugl
          /\ blockActive' = blk
          /\ prevPtt' = pttState
          /\ prevBlockReported' = pttBlockReported
          /\ pttOutPin' = IF newPtt THEN HIGH ELSE LOW
          /\ pttState' = newPtt
          /\ pttBlockReported' = (pressed /\ ~allowed)
          /\ IF callsBandControl(lvl_ptt)
             THEN \E r \in SampledReadings :
                    /\ bandInPins' = r
                    /\ bandControl(readBandCode(r), pttDebug(pressed, allowed),
                                   uglDebug(lvl_ugl), newPtt)
             ELSE /\ bandInPins' = bandInPins
                  /\ noBandChange(band, pttDebug(pressed, allowed) \o uglDebug(lvl_ugl),
                                  newPtt)
  /\ pc' = "service"
  /\ UNCHANGED << bandBlockTimeMs, debugEnabled, debugDeadline, configVars, sketch >>

\* ------------------------------------------------------------ rest of loop
\* the locals of the last handleAmplifierLogic call are out of scope once it
\* has returned
tickLocalsGone ==
  /\ in_ptt' = HIGH
  /\ in_ugl' = HIGH
  /\ blockActive' = FALSE
  /\ prevPtt' = FALSE
  /\ prevBlockReported' = FALSE
  /\ bandChanged' = FALSE

\* loop() after the tick, when the MQTT client reports a lost connection and
\* the connect succeeds: reconnectMQTT() logs "MQTT connected." and publishes
\* a status snapshot.  The debug timeout of loop() has run before it.
reconnectMQTT ==
  /\ pc = "service"
  /\ \E g \in Gaps :
       LET timeout == debugEnabled /\ debugDeadline # 0 /\ clock >= debugDeadline
       IN /\ debugLog' = << publishDebugMessage("mqtt_connected", debugEnabled /\ ~timeout) >>
          /\ statusLog' = << publishAmpStatus(TRUE, pttState, band, lastBandChangeTime,
                                              bandBlockTimeMs, clock, AddMs(clock, g)) >>
          /\ clock' = AddMs(clock, g)
          /\ elapsed' = Later(elapsed, g)
  /\ tickLocalsGone
  /\ pc' = "reconnected"
  /\ UNCHANGED << band, bandOld, lastBandChangeTime, bandBlockTimeMs, pttState,
                  pttBlockReported, debugEnabled, debugDeadline, pttOutPin,
                  bandOutPins, bandInPins, changedSinceBoot, configVars, sketch >>

\* The rest of loop(): the one-minute debug timeout and the time the
\* iteration takes (web and MQTT service, delay(5)).
loopService ==
  /\ pc \in {"service", "reconnected"}
  /\ \E d \in 1 .. MaxDelay :
       LET timeout == debugEnabled /\ debugDeadline # 0 /\ clock >= debugDeadline
       IN /\ debugEnabled' = (debugEnabled /\ ~timeout)
          /\ debugDeadline' = IF timeout THEN 0 ELSE debugDeadline
          /\ clock' = AddMs(clock, d)
          /\ elapsed' = Later(elapsed, d)
  /\ debugLog' = << >>
  /\ statusLog' = << >>
  /\ tickLocalsGone
  /\ pc' = "logic"
  /\ UNCHANGED << band, bandOld, lastBandChangeTime, bandBlockTimeMs, pttState,
                  pttBlockReported, pttOutPin, bandOutPins, bandInPins,
                  changedSinceBoot, configVars, sketch >>

Next == setup \/ handleAmplifierLogic \/ reconnectMQTT \/ loopService

Spec == Init /\ [][Next]_vars

\* setup() runs and loop() is called forever by the runtime: the program
\* never stops while a step is enabled (each pc value enables its next step).
LiveSpec == Spec /\ WF_vars(Next)

\* ------------------------------------------------------ Output Mapper runs
\* applyBandOutputs applied to every band code from any prior output levels
InitMapper ==
  /\ pc = "map"
  /\ clock = 0
  /\ band \in 0 .. Mask
  /\ bandOld = UnsetBand
  /\ lastBandChangeTime = 0
  /\ bandBlockTimeMs = BlockMs
  /\ pttState = FALSE
  /\ pttBlockReported = FALSE
  /\ debugEnabled = TRUE
  /\ debugDeadline = DebugMs
  /\ pttOutPin = LOW
  /\ bandOutPins \in PinReadings
  /\ bandInPins = [i \in Pins |-> HIGH]
  /\ block_ptt_seconds = DefaultBlockSeconds
  /\ eepromSeconds = DefaultBlockSeconds
  /\ sketch = sketchReset
  /\ in_ptt = HIGH
  /\ in_ugl = HIGH
  /\ blockActive = FALSE
  /\ prevPtt = FALSE
  /\ prevBlockReported = FALSE
  /\ bandChanged = FALSE
  /\ statusLog = << >>
  /\ debugLog = << >>
  /\ elapsed = 0
  /\ changedSinceBoot = FALSE

mapBand ==
  /\ pc = "map"
  /\ bandOutPins' = applyBandOutputs(band)
  /\ debugLog' = << publishDebugMessage("band_code", debugEnabled) >>
  /\ pc' = "mapped"
  /\ UNCHANGED << clock, band, bandOld, lastBandChangeTime, bandBlockTimeMs,
                  pttState, pttBlockReported, debugEnabled, debugDeadline,
                  pttOutPin, in_ptt, in_ugl, blockActive, prevPtt,
                  prevBlockReported, bandChanged, statusLog, elapsed,
                  changedSinceBoot, bandInPins, configVars, sketch >>

NextMapper == mapBand

SpecMapper == InitMapper /\ [][NextMapper]_vars

\* ------------------------------------------- decoder and both mapper variants
\* The band pins are decoded twice by readBandCode, the code is mapped by the
\* firmware's applyBandOutputs, and the earlier sketch's bandControl() runs on
\* the same pin levels, from every prior value of PORTD.  The firmware's
\* outputs start at the levels of PORTD bits 2..5.
SketchPrior == {0, Mask}

InitVariants ==
  /\ pc = "decode"
  /\ clock = 0
  /\ band = UnsetBand
  /\ bandOld = UnsetBand
  /\ lastBandChangeTime = 0
  /\ bandBlockTimeMs = BlockMs
  /\ pttState = FALSE
  /\ pttBlockReported = FALSE
  /\ debugEnabled = TRUE
  /\ debugDeadline = DebugMs
  /\ pttOutPin = LOW
  /\ bandInPins \in PinReadings
  /\ \E o \in SketchPrior, p \in PortValues :
       /\ sketch = [band |-> o, bandOld |-> o, PORTD |-> p]
       /\ bandOutPins = [i \in Pins |-> IF Bit(p, i + 2) = 1 THEN HIGH ELSE LOW]
  /\ block_ptt_seconds = DefaultBlockSeconds
  /\ eepromSeconds = DefaultBlockSeconds
  /\ in_ptt = HIGH
  /\ in_ugl = HIGH
  /\ blockActive = FALSE
  /\ prevPtt = FALSE
  /\ prevBlockReported = FALSE
  /\ bandChanged = FALSE
  /\ statusLog = << >>
  /\ debugLog = << >>
  /\ elapsed = 0
  /\ changedSinceBoot = FALSE

\* one call of readBandCode() on the current pin levels
decodeBand ==
  /\ pc \in {"decode", "decoded"}
  /\ band' = readBandCode(bandInPins)
  /\ pc' = IF pc = "decode" THEN "decoded" ELSE "map"
  /\ UNCHANGED << clock, bandOld, lastBandChangeTime, bandBlockTimeMs, pttState,
                  pttBlockReported, debugEnabled, debugDeadline, pttOutPin,
                  bandOutPins, bandInPins, configVars, sketch, in_ptt, in_ugl,
                  blockActive, prevPtt, prevBlockReported, bandChanged,
                  statusLog, debugLog, elapsed, changedSinceBoot >>

\* bandControl() of the earlier sketch (its loop() with PTT released)
sketchBandControl ==
  /\ pc = "mapped"
  /\ LET b == PINC(bandInPins, in_ugl) % (Mask + 1)
     IN sketch' = IF b = sketch.bandOld
                  THEN [sketch EXCEPT !.band = b]
                  ELSE [band |-> b, bandOld |-> b, PORTD |-> sketchSwitch(b, sketch.PORTD)]
  /\ pc' = "compared"
  /\ UNCHANGED << clock, band, bandOld, lastBandChangeTime, bandBlockTimeMs, pttState,
                  pttBlockReported, debugEnabled, debugDeadline, pttOutPin,
                  bandOutPins, bandInPins, configVars, in_ptt, in_ugl,
                  blockActive, prevPtt, prevBlockReported, bandChanged,
                  statusLog, debugLog, elapsed, changedSinceBoot >>

NextVariants == decodeBand \/ mapBand \/ sketchBandControl

SpecVariants == InitVariants /\ [][NextVariants]_vars

\* ------------------------------------------------------- configuration runs
\* variant: no upper limit on the configured seconds
clampBlockSecondsNoUpper(x) == IF x <= 0 THEN DefaultBlockSeconds ELSE x

\* if (block_ptt_seconds <= 0 || block_ptt_seconds > 600) block_ptt_seconds = 15;
clampBlockSeconds(x) ==
  IF x <= 0 \/ x > MaxBlockSeconds THEN DefaultBlockSeconds ELSE x

\* the ints found in the EEPROM or returned by toInt() for the submitted
\* field: from below zero to above the limit (erased flash reads -1, a
\* non-numeric field gives 0)
StoredSeconds == (0 - SecondsSpan) .. (MaxBlockSeconds + SecondsSpan)

InitConfig ==
  /\ pc = "boot"
  /\ clock = 0
  /\ band = UnsetBand
  /\ bandOld = UnsetBand
  /\ lastBandChangeTime = 0
  /\ bandBlockTimeMs = DefaultBlockSeconds * MsPerSecond
  /\ pttState = FALSE
  /\ pttBlockReported = FALSE
  /\ debugEnabled = TRUE
  /\ debugDeadline = DebugMs
  /\ pttOutPin = LOW
  /\ bandOutPins = [i \in Pins |-> LOW]
  /\ bandInPins = [i \in Pins |-> HIGH]
  /\ block_ptt_seconds = DefaultBlockSeconds
  /\ eepromSeconds \in StoredSeconds
  /\ sketch = sketchReset
  /\ in_ptt = HIGH
  /\ in_ugl = HIGH
  /\ blockActive = FALSE
  /\ prevPtt = FALSE
  /\ prevBlockReported = FALSE
  /\ bandChanged = FALSE
  /\ statusLog = << >>
  /\ debugLog = << >>
  /\ elapsed = 0
  /\ changedSinceBoot = FALSE

\* what the configuration code never touches
interlockVars ==
  << clock, band, bandOld, lastBandChangeTime, pttState, pttBlockReported,
     debugEnabled, debugDeadline, pttOutPin, bandOutPins, bandInPins, sketch,
     in_ptt, in_ugl, blockActive, prevPtt, prevBlockReported, bandChanged,
     statusLog, debugLog, elapsed, changedSinceBoot >>

\* loadConfigFromEEPROM(), called by setup(): the block seconds part.  The
\* product stays far below 2^32.
loadConfigFromEEPROM ==
  /\ pc = "boot"
  /\ block_ptt_seconds' = clampBlockSeconds(eepromSeconds)
  /\ bandBlockTimeMs' = clampBlockSeconds(eepromSeconds) * MsPerSecond
  /\ pc' = "configured"
  /\ UNCHANGED << eepromSeconds, interlockVars >>

\* handleSave() up to its ESP.restart(): x is what toInt() returned
handleSave ==
  /\ pc = "configured"
  /\ \E x \in StoredSeconds :
       /\ block_ptt_seconds' = clampBlockSeconds(x)
       /\ bandBlockTimeMs' = clampBlockSeconds(x) * MsPerSecond
       /\ eepromSeconds' = clampBlockSeconds(x)
  /\ pc' = "saved"
  /\ UNCHANGED interlockVars

\* ESP.restart() at the end of handleSave(): the globals are initialised anew
restart ==
  /\ pc = "saved"
  /\ block_ptt_seconds' = DefaultBlockSeconds
  /\ bandBlockTimeMs' = DefaultBlockSeconds * MsPerSecond
  /\ pc' = "boot"
  /\ UNCHANGED << eepromSeconds, interlockVars >>

NextConfig == loadConfigFromEEPROM \/ handleSave \/ restart

SpecConfig == InitConfig /\ [][NextConfig]_vars

\* =================================================================== claims
\* the tick just taken: the state right after handleAmplifierLogic
AfterTick == pc = "service"
\* the block test of the source at the current clock value
BlockNow == BlockActive(clock, lastBandChangeTime, bandBlockTimeMs)
\* the tick denied a press that was not being denied before
DenialOnset == in_ptt = LOW /\ blockActive /\ ~prevBlockReported

\* C1: in a tick whose blockActive value is true the amplifier PTT output is
\* never asserted: pttOut stays LOW and PTTState is RX.
C1_NoTxWhileBlocked ==
  (AfterTick /\ blockActive) => (pttOutPin = LOW /\ pttState = FALSE)

C1_Witness ==
  AfterTick /\ changedSinceBoot /\ blockActive /\ in_ptt = LOW /\ pttOutPin = LOW

\* C2: a tick that samples PTT pressed leaves the stored band code, the
\* reported band, the four band outputs and the block start time unchanged.
C2_BandFrozenWhilePressed ==
  [][(pc = "logic" /\ in_ptt' = LOW)
       => /\ bandOld' = bandOld
          /\ band' = band
          /\ bandOutPins' = bandOutPins
          /\ lastBandChangeTime' = lastBandChangeTime]_vars

C2_Witness ==
  AfterTick /\ in_ptt = LOW /\ pttState /\ prevPtt /\ changedSinceBoot /\ ~bandChanged

\* C3 as stated: after a band change at T the block is active exactly for
\* T <= t < T+D (so inactive at t = T+D).
C3_HalfOpenWindow ==
  changedSinceBoot => (BlockNow <=> elapsed < bandBlockTimeMs)

\* C3 amended: the block is active exactly when (t - T) mod 2^w <= D: for
\* T <= t <= T+D, t = T+D included, and not for T+D < t < T+2^w.
C3_ClosedWindow ==
  changedSinceBoot
    => (BlockNow <=> (elapsed % ClockModulus) <= bandBlockTimeMs)

C3_Witness ==
  /\ AfterTick /\ changedSinceBoot /\ ~bandChanged /\ statusLog = << >>
  /\ elapsed = bandBlockTimeMs /\ blockActive /\ in_ptt = LOW /\ ~pttState

\* C4: while no band change has been detected since boot the block is
\* inactive in every tick, and a press is granted.
C4_NoBlockAfterBoot ==
  (AfterTick /\ ~changedSinceBoot)
    => (~blockActive /\ (in_ptt = LOW => pttState))

\* C5: for each of the 16 band codes the levels on OUT0..OUT3 are the bits of
\* the table row (written OUT3 OUT2 OUT1 OUT0), codes 0..4 giving 1111.
TableRow(b) ==
  CASE b = 15 -> << 1, 1, 1, 1 >>
    [] b = 14 -> << 0, 0, 0, 0 >>
    [] b = 13 -> << 0, 0, 0, 1 >>
    [] b = 12 -> << 0, 0, 1, 0 >>
    [] b = 11 -> << 0, 0, 1, 1 >>
    [] b = 10 -> << 0, 1, 0, 0 >>
    [] b = 9  -> << 0, 1, 0, 1 >>
    [] b = 8  -> << 0, 1, 1, 0 >>
    [] b = 7  -> << 0, 1, 1, 1 >>
    [] b = 6  -> << 1, 0, 0, 0 >>
    [] b = 5  -> << 1, 0, 0, 1 >>
    [] b \in 0 .. 4 -> << 1, 1, 1, 1 >>

C5_MapperTable ==
  pc = "mapped"
    => \A i \in Pins : bandOutPins[i] = (IF TableRow(band)[4 - i] = 1 THEN HIGH ELSE LOW)

C5_Witness ==
  /\ pc = "mapped" /\ band = 6
  /\ bandOutPins[3] = HIGH /\ bandOutPins[2] = LOW
  /\ bandOutPins[1] = LOW /\ bandOutPins[0] = LOW

\* C6: a tick hands publishAmpStatus exactly one snapshot for a PTTState
\* transition plus exactly one for a detected band change, and none otherwise.
C6_OneSnapshotPerTransition ==
  AfterTick
    => Len(statusLog) = (IF pttState # prevPtt THEN 1 ELSE 0)
                        + (IF bandChanged THEN 1 ELSE 0)

C6_Witness ==
  AfterTick /\ bandChanged /\ prevPtt /\ ~pttState /\ Len(statusLog) = 2

\* C7: after every tick PTTState is TX, and pttOut HIGH, exactly when that tick
\* sampled PTT pressed and computed blockActive false.
C7_PttRederived ==
  AfterTick
    => /\ pttState <=> (in_ptt = LOW /\ ~blockActive)
       /\ (pttOutPin = HIGH) <=> pttState

C7_Witness ==
  AfterTick /\ pttState /\ ~prevPtt /\ in_ptt = LOW /\ ~blockActive /\ pttOutPin = HIGH

C9_WrapSafeWindow ==
  /\ changedSinceBoot => (BlockNow <=> elapsed <= bandBlockTimeMs)
  /\ (AfterTick /\ in_ptt = LOW /\ prevPtt) => pttState

\* C10: a press that was being denied and is still held is granted on the
\* first tick whose blockActive is false (pttOut HIGH, RX->TX, one snapshot
\* reporting TX), and a denied, held press eventually is granted or released.
C10_HeldPttGranted ==
  /\ []((AfterTick /\ in_ptt = LOW /\ prevBlockReported /\ ~blockActive)
          => /\ pttState /\ ~prevPtt /\ pttOutPin = HIGH
             /\ Len(statusLog) = 1 /\ statusLog[1].ptt = TRUE)
  /\ ((AfterTick /\ in_ptt = LOW /\ ~pttState)
        ~> (AfterTick /\ (pttState \/ in_ptt = HIGH)))

C10_Witness ==
  /\ AfterTick /\ changedSinceBoot /\ in_ptt = LOW /\ prevBlockReported
  /\ ~blockActive /\ pttState /\ Len(statusLog) = 1

\* C11: readBandCode returns a code in 0..15 whose bit i is 1 exactly when
\* band input pin i reads HIGH, for each of the 16 combinations of pin levels,
\* and a second decoding of the same levels returns the same code.
C11_DecoderBits ==
  /\ [](pc \in {"decoded", "map"}
         => /\ band \in 0 .. 15
            /\ \A i \in Pins : (Bit(band, i) = 1) <=> (bandInPins[i] = HIGH))
  /\ [][(pc = "decoded" /\ pc' = "map") => band' = band]_vars

C11_Witness ==
  /\ pc = "map" /\ band = 10
  /\ bandInPins[0] = LOW /\ bandInPins[1] = HIGH
  /\ bandInPins[2] = LOW /\ bandInPins[3] = HIGH

\* C17: whenever the earlier sketch detects a band change, the pattern it
\* leaves on PORTD bits 2..5, from any prior PORTD value, is bit for bit the
\* pattern the firmware wrote to OUT0..OUT3 for the same code.
C17_VariantsAgree ==
  [][(pc = "mapped" /\ sketch'.band # sketch.bandOld)
       => /\ sketch'.band = band'
          /\ \A i \in Pins :
               (Bit(sketch'.PORTD, i + 2) = 1) <=> (bandOutPins'[i] = HIGH)]_vars

C17_Witness ==
  /\ pc = "compared" /\ sketch.band = 6 /\ sketch.bandOld = 6
  /\ Bit(sketch.PORTD, 5) = 1 /\ Bit(sketch.PORTD, 4) = 0
  /\ Bit(sketch.PORTD, 3) = 0 /\ Bit(sketch.PORTD, 2) = 0
  /\ bandOutPins[3] = HIGH /\ bandOutPins[0] = LOW

\* C12: after every configuration load and every save, whatever int was
\* stored or submitted, the configured seconds are in 1..600 and
\* bandBlockTimeMs is that value times 1000, hence in 1000..600000.
C12_DurationClamped ==
  pc \in {"configured", "saved"}
    => /\ block_ptt_seconds \in 1 .. 600
       /\ bandBlockTimeMs = block_ptt_seconds * 1000
       /\ bandBlockTimeMs \in 1000 .. 600000

C12_Witness ==
  /\ pc = "configured" /\ eepromSeconds = 601
  /\ block_ptt_seconds = 15 /\ bandBlockTimeMs = 15000

\* C13: in every published status snapshot block_ms_left is at most the block
\* duration, and 0 when the snapshot reports the block inactive, also when
\* the clock advances between the snapshot's two millis() readings.
C13_RemainingInRange ==
  \A i \in 1 .. Len(statusLog) :
    statusLog[i].sent
      => /\ statusLog[i].block_ms_left \in 0 .. bandBlockTimeMs
         /\ ~statusLog[i].block => statusLog[i].block_ms_left = 0

\* the number of calls of publishDebugMessage with message m in the last step
DebugCount(m) == Cardinality({i \in 1 .. Len(debugLog) : debugLog[i].msg = m})

\* the tick denied a press
Denied == in_ptt = LOW /\ blockActive

\* C14: the denial debug event is edge-triggered.  After every tick the
\* reported flag says whether that tick denied a press, and it is kept until
\* the next tick; a tick emits the denial event exactly when it denies a
\* press and the tick before it did not (the press was released or granted in
\* between, or there was none); a denial with PTTState already RX emits no
\* status snapshot.
C14_DenialEdgeTriggered ==
  /\ [](AfterTick
         => /\ pttBlockReported <=> Denied
            /\ DebugCount("ptt_blocked") = (IF Denied /\ ~prevBlockReported THEN 1 ELSE 0)
            /\ (Denied /\ ~prevPtt) => statusLog = << >>)
  /\ [][/\ pc = "logic" => prevBlockReported' = pttBlockReported
        /\ pc \in {"service", "reconnected"} => pttBlockReported' = pttBlockReported]_vars

C14_Witness ==
  /\ AfterTick /\ changedSinceBoot /\ Denied /\ prevBlockReported
  /\ DebugCount("ptt_blocked") = 0 /\ statusLog = << >>

\* the band debug lines of the last step
BandDebugCount ==
  DebugCount("band_change") + DebugCount("band_block") + DebugCount("band_code")

\* C15: a tick with PTT not pressed whose decoded code differs from the
\* stored previous code stores the new code as previous, drives the outputs
\* to the mapper's pattern of the new code and sets the block start time to
\* the time of that tick, whether or not a block is active; the block start
\* time is always the time of the last detected change.
C15_ChangeRestartsWindow ==
  /\ [][(pc = "logic" /\ in_ptt' = HIGH /\ band' # bandOld)
          => /\ bandOld' = band'
             /\ bandOutPins' = applyBandOutputs(band')
             /\ SubMs(lastBandChangeTime', clock) <= SubMs(clock', clock)
             /\ SubMs(clock', lastBandChangeTime') = elapsed'
             /\ bandChanged']_vars
  /\ [](changedSinceBoot
         => SubMs(clock, lastBandChangeTime) = elapsed % ClockModulus)

C15_Witness ==
  /\ AfterTick /\ bandChanged /\ blockActive /\ in_ptt = HIGH
  /\ bandOld = 7 /\ bandOutPins = applyBandOutputs(7)
  /\ BlockNow /\ elapsed <= MaxGap + MaxGap

\* C16: a tick with PTT not pressed whose decoded code equals the stored
\* previous code leaves the stored code, the band outputs and the block start
\* time unchanged and emits no band debug event and no band snapshot; the
\* block start time changes only in a tick that detects a band change.
C16_UnchangedBandNoAction ==
  /\ [][(pc = "logic" /\ in_ptt' = HIGH /\ band' = bandOld)
          => /\ bandOld' = bandOld
             /\ bandOutPins' = bandOutPins
             /\ lastBandChangeTime' = lastBandChangeTime
             /\ ~bandChanged'
             /\ BandDebugCount' = 0
             /\ Len(statusLog') = (IF pttState' # pttState THEN 1 ELSE 0)]_vars
  /\ [][lastBandChangeTime' # lastBandChangeTime
          => (pc = "logic" /\ in_ptt' = HIGH /\ band' # bandOld)]_vars

C16_Witness ==
  /\ AfterTick /\ in_ptt = HIGH /\ ~bandChanged /\ changedSinceBoot
  /\ band = bandOld /\ blockActive /\ BandDebugCount = 0 /\ statusLog = << >>

\* C18: in every state after setup the four band outputs are the mapper's
\* pattern of the stored previous band code, and the reported band is the
\* stored previous band code.
C18_OutputsMatchStoredBand ==
  pc \in {"logic", "service", "reconnected"}
    => /\ bandOutPins = applyBandOutputs(bandOld)
       /\ band = bandOld

C18_Witness ==
  /\ AfterTick /\ bandChanged /\ prevPtt /\ bandOld = 10 /\ band = 10
  /\ bandOutPins[2] = HIGH /\ bandOutPins[0] = LOW
  /\ bandOutPins[1] = LOW /\ bandOutPins[3] = LOW

\* position of the first call with message m in the debug log (0: none)
DebugIndex(m) ==
  IF DebugCount(m) = 0 THEN 0
  ELSE CHOOSE i \in 1 .. Len(debugLog) :
         /\ debugLog[i].msg = m
         /\ \A j \in 1 .. (i - 1) : debugLog[j].msg # m

\* C19: after setup the band outputs are written and the block start time is
\* set only in a tick that sampled PTT released and has driven pttOut LOW
\* and set PTTState to RX before: the band snapshot already reports RX and
\* the TX OFF line precedes the band lines.  So a band change made during TX
\* is applied by the tick that deasserts PTT, which starts the block.
C19_BandWrittenOnlyInRx ==
  /\ [][(pc # "setup" /\ (bandOutPins' # bandOutPins \/ bandOld' # bandOld
                            \/ lastBandChangeTime' # lastBandChangeTime))
          => /\ pc = "logic" /\ in_ptt' = HIGH
             /\ pttOutPin' = LOW /\ ~pttState']_vars
  /\ [](AfterTick /\ bandChanged
         => /\ in_ptt = HIGH /\ pttOutPin = LOW /\ ~pttState
            /\ statusLog[1].ptt = FALSE
            /\ prevPtt => (/\ DebugIndex("ptt_tx_off") > 0
                           /\ DebugIndex("ptt_tx_off") < DebugIndex("band_change"))
            /\ lastBandChangeTime = SubMs(clock, elapsed % ClockModulus))

C19_Witness ==
  /\ AfterTick /\ bandChanged /\ prevPtt /\ ~pttState /\ pttOutPin = LOW
  /\ DebugIndex("ptt_tx_off") = 1 /\ DebugIndex("band_change") = 2

\* C20: every published snapshot that reports ptt = TX reports the block
\* inactive with block_ms_left = 0, and the snapshot published for a
\* detected band change reports ptt = RX with the block active.
C20_SnapshotsConsistent ==
  /\ \A i \in 1 .. Len(statusLog) :
       (statusLog[i].sent /\ statusLog[i].ptt)
         => (~statusLog[i].block /\ statusLog[i].block_ms_left = 0)
  /\ (AfterTick /\ bandChanged /\ statusLog[1].sent)
       => (~statusLog[1].ptt /\ statusLog[1].block)

====
